---- MODULE Spec2Model ----
(***************************************************************************)
(* The cluster provisioning run of create_cluster.py: cli() and the        *)
(* functions it calls, one action per step of the sequential program, the  *)
(* cloud provider as the state its calls create, and every provider call   *)
(* free to fail.                                                           *)
(*                                                                         *)
(* Regions are opaque names: the run's region list is modelled as          *)
(* <<1, ..., n>>, pairwise distinct, in command-line order.  Loop indices  *)
(* named i are 0-based as in the source; ri is a 1-based position in the   *)
(* region list (the iteration order of the region-keyed dicts, which are   *)
(* all filled in command-line order).                                      *)
(***************************************************************************)
EXTENDS Integers, Sequences, FiniteSets, TLC

\* ------------------------------------------------------------------ bounds
MaxRegions == 2
MaxClusterSize == 4
MaxSubnets == 2
MaxExtraHosts == 2
MaxPolls == 1
MaxMappings == 2

\* ------------------------------------------------------- program constants
MaxSeeds == 3
SkipHosts == 10
PacingInterval == 60
MeshPort == 7001
SshPort == 22

VARIABLES
    internal,          \* --internal
    regions,           \* the regions argument
    cluster_size,      \* --cluster-size
    pc,                \* the function cli() is in
    step,              \* the position inside that function
    ri,                \* position of the current region in the loop over regions
    i,                 \* the node index of the current loop (0-based)
    taupage_amis,      \* regions with an image found
    subnets,           \* region -> list of subnets (each its number of host addresses)
    network_ips,       \* allocate_private_ips: hosts consumed from each subnet's iterator
    node_ips,          \* region -> list of addresses
    seed_count,
    seed_nodes,        \* region -> list of addresses
    security_groups,   \* regions with a recorded group, in insertion order
    ip_permissions,    \* setup_security_groups: the rule list being assembled
    bastion_lookup,    \* setup_security_groups: this region's bastion lookup ("" before it)
    taupage_user_data, \* whether the boot configuration has been built
    seeds_launched,    \* launch_seed_nodes' counter
    instance,          \* launch_instance: number of the instance being launched (0: none)
    polls,             \* launch_instance: describe_instances polls that answered pending
    aws_addresses,     \* provider: public addresses currently reserved
    aws_associated,    \* provider: public addresses associated with an instance
    aws_groups,        \* provider: regions whose group (created by this run) exists
    aws_foreign_groups, \* provider: regions with a group of the cluster's name from before the run
    aws_authorized,    \* provider: region -> number of authorize calls on its group
    aws_instances,     \* provider: the instances, in launch order
    in_use,            \* provider: private addresses a probe found held by an instance
    calls,             \* rollback's provider calls, in order
    exc,               \* the failure that entered the except block ("" when none)
    raised,            \* the failure that left cli() ("" when none)
    log,               \* instance launches and pacing sleeps, in order
    block_device_mappings, \* the image's block-device mappings (ami.block_device_mappings)
    block_devices      \* launch_instance: the list sent in the boot request (<<>> before one)

inputs == <<internal, regions, cluster_size>>
ctrl == <<pc, step, ri, i>>
run == <<taupage_amis, subnets, network_ips, node_ips, seed_count, seed_nodes,
         security_groups, ip_permissions, bastion_lookup, taupage_user_data,
         seeds_launched, instance, polls>>
aws == <<aws_addresses, aws_associated, aws_groups, aws_foreign_groups, aws_authorized,
        aws_instances, in_use>>
outcome == <<calls, exc, raised, log>>
image == <<block_device_mappings, block_devices>>
vars == <<inputs, ctrl, run, aws, outcome, image>>

\* ----------------------------------------------------------------- helpers
Range(s) == {s[k] : k \in 1..Len(s)}

Min(a, b) == IF a < b THEN a ELSE b

\* The lists of regions a run may be given: <<1>>, <<1, 2>>, ...
RegionLists == {[k \in 1..n |-> k] : n \in 1..MaxRegions}

\* A subnet is its number of host addresses (netaddr's iter_hosts); only
\* allocate_private_ips reads it, so a public run's subnets all carry the same.
SubnetSizes == IF internal THEN {SkipHosts - 1, SkipHosts + MaxExtraHosts}
                           ELSE {SkipHosts + MaxExtraHosts}

SubnetLists == UNION {[1..n -> SubnetSizes] : n \in 0..MaxSubnets}

\* The region the loop over regions is at.
region == regions[ri]

\* An address: the region (public) or subnet position (private) it comes from,
\* its number there, and the loop index i it was allocated for.
Address(net, host, index) == [net |-> net, host |-> host, index |-> index]

\* ------------------------------------------------------ block-device lists
\* launch_instance, line 332: the pre-defined device name of the data volume.
DataDeviceName == "/dev/xvdf"

\* The device names an image may map.
DeviceNames == {"/dev/sda1", "/dev/sdb", DataDeviceName}

\* An entry of a block-device list: its device name, what it is (an "Ebs"
\* volume, an "ephemeral" instance-store volume, or a "NoDevice" marker) and
\* the Encrypted key of its Ebs dict ("absent" when there is no such key).
Mapping(name, kind, encrypted) ==
    [DeviceName |-> name, kind |-> kind, Encrypted |-> encrypted]

\* The entries an image may carry.
ImageMappings ==
    {Mapping(d, "Ebs", e) : d \in DeviceNames, e \in {"absent", "true", "false"}}
        \cup {Mapping(d, "ephemeral", "absent") : d \in DeviceNames}

\* The mapping lists an image may carry, up to MaxMappings entries.
MappingLists == UNION {[1..n -> ImageMappings] : n \in 0..MaxMappings}

\* An image like the ones the registry names: an encrypted root volume and
\* an instance-store volume.
TaupageMappings ==
    <<Mapping("/dev/sda1", "Ebs", "true"), Mapping("/dev/sdb", "ephemeral", "absent")>>

\* -------------------------------------------------------------------- Init
\* The state before cli() runs, for an image whose mappings are among images.
InitWith(images) ==
    /\ block_device_mappings \in images
    /\ block_devices = <<>>
    /\ internal \in BOOLEAN
    /\ regions \in RegionLists
    /\ internal => Len(regions) = 1
    /\ cluster_size \in 1..MaxClusterSize
    /\ pc = "generate_certificate"
    /\ step = "start"
    /\ ri = 1
    /\ i = 0
    /\ taupage_amis = {}
    /\ subnets = [r \in Range(regions) |-> <<>>]
    /\ network_ips = <<>>
    /\ node_ips = [r \in Range(regions) |-> <<>>]
    /\ seed_count = 0
    /\ seed_nodes = [r \in Range(regions) |-> <<>>]
    /\ security_groups = <<>>
    /\ ip_permissions = <<>>
    /\ bastion_lookup = ""
    /\ taupage_user_data = FALSE
    /\ seeds_launched = 0
    /\ instance = 0
    /\ polls = 0
    /\ aws_addresses = {}
    /\ aws_associated = {}
    /\ aws_groups = {}
    /\ aws_foreign_groups \in SUBSET Range(regions)
    /\ aws_authorized = [r \in Range(regions) |-> 0]
    /\ aws_instances = <<>>
    /\ in_use = {}
    /\ calls = <<>>
    /\ exc = ""
    /\ raised = ""
    /\ log = <<>>

Init == InitWith({TaupageMappings})

\* ---------------------------------------------------------------- failures
\* An exception raised inside the try block: control goes to the except block.
Raise(what) ==
    /\ exc' = what
    /\ pc' = "except"
    /\ step' = "start"
    /\ ri' = 1
    /\ i' = 0

\* cli(): keystore generation, before the try block; a failure here leaves
\* cli() with nothing created and no rollback.
generate_certificate ==
    /\ pc = "generate_certificate"
    /\ \/ /\ pc' = "find_taupage_amis"
          /\ UNCHANGED <<exc, raised>>
       \/ /\ pc' = "raised"
          /\ exc' = "generate_certificate"
          /\ raised' = "generate_certificate"
    /\ UNCHANGED <<inputs, image, step, ri, i, run, aws, calls, log>>

\* find_taupage_amis: one image lookup per region.
find_taupage_amis ==
    /\ pc = "find_taupage_amis"
    /\ taupage_amis' = taupage_amis \cup {region}
    /\ IF ri < Len(regions)
       THEN /\ ri' = ri + 1
            /\ pc' = pc
       ELSE /\ ri' = 1
            /\ pc' = "get_subnets"
    /\ UNCHANGED <<inputs, image, step, i, subnets, network_ips, node_ips, seed_count,
                   seed_nodes, security_groups, ip_permissions, bastion_lookup, taupage_user_data,
                   seeds_launched, instance, polls, aws, outcome>>

\* get_subnets: the region's subnets with the mode's name prefix, by zone.
get_subnets ==
    /\ pc = "get_subnets"
    /\ \E found \in SubnetLists : subnets' = [subnets EXCEPT ![region] = found]
    /\ IF ri < Len(regions)
       THEN /\ ri' = ri + 1
            /\ UNCHANGED <<pc, step>>
       ELSE /\ ri' = 1
            /\ pc' = IF internal THEN "allocate_private_ips" ELSE "allocate_public_ips"
            /\ step' = "start"
    /\ UNCHANGED <<inputs, image, i, taupage_amis, network_ips, node_ips, seed_count,
                   seed_nodes, security_groups, ip_permissions, bastion_lookup, taupage_user_data,
                   seeds_launched, instance, polls, aws, outcome>>

\* public_ips[region].append(resp) / private_ips[region].append({'_ip': ip})
Record(ips, ip) == Append(ips, ip)

\* A faulty node loop that runs over range(cluster_size - 1).
MoreNodesOneShort(n) == n + 2 < cluster_size

\* range(cluster_size): whether the loop over node indices goes on after index n.
MoreNodes(n) == n + 1 < cluster_size

\* A faulty allocate_public_ips that returns after its first region.
FirstRegionOnly == FALSE

\* allocate_public_ips, line 161: whether the loop over regions goes on.
MoreRegionsToAllocate == ri < Len(regions)

\* allocate_public_ips: one allocate_address per node of each region; the
\* response is appended to the region's list at once.
allocate_public_ips ==
    /\ pc = "allocate_public_ips"
    /\ LET ip == Address(region, Len(node_ips[region]) + 1, i)
       IN /\ aws_addresses' = aws_addresses \cup {ip}
          /\ node_ips' = [node_ips EXCEPT ![region] = Record(@, ip)]
    /\ IF MoreNodes(i)
       THEN /\ i' = i + 1
            /\ UNCHANGED <<pc, ri>>
       ELSE /\ i' = 0
            /\ IF MoreRegionsToAllocate
               THEN /\ ri' = ri + 1
                    /\ pc' = pc
               ELSE /\ ri' = 1
                    /\ pc' = "pick_seed_node_ips"
    /\ UNCHANGED <<inputs, image, step, taupage_amis, subnets, network_ips, seed_count,
                   seed_nodes, security_groups, ip_permissions, bastion_lookup, taupage_user_data,
                   seeds_launched, instance, polls, aws_associated, aws_groups, aws_foreign_groups,
                   aws_authorized, aws_instances, in_use, outcome>>

\* allocate_private_ips, lines 179-191: one host iterator per subnet, then for
\* node i the iterator of subnet i % len(subnets), its first SkipHosts hosts
\* skipped on the first visit.  No subnet: ZeroDivisionError; a subnet with
\* fewer hosts than are skipped: StopIteration.
allocate_private_ips_select ==
    /\ pc = "allocate_private_ips"
    /\ step \in {"start", "select"}
    /\ LET subs == subnets[region]
           its == IF step = "start" THEN [s \in 1..Len(subs) |-> 0] ELSE network_ips
           s == (i % Len(subs)) + 1
       IN IF Len(subs) = 0
          THEN /\ Raise("ZeroDivisionError")
               /\ network_ips' = its
          ELSE IF i < Len(subs) /\ subs[s] < SkipHosts
          THEN /\ Raise("StopIteration")
               /\ network_ips' = [its EXCEPT ![s] = subs[s]]
          ELSE /\ network_ips' = IF i < Len(subs) THEN [its EXCEPT ![s] = SkipHosts]
                                                   ELSE its
               /\ step' = "probe"
               /\ UNCHANGED <<pc, ri, i, exc>>
    /\ UNCHANGED <<inputs, image, taupage_amis, subnets, node_ips, seed_count, seed_nodes,
                   security_groups, ip_permissions, bastion_lookup, taupage_user_data,
                   seeds_launched, instance, polls, aws, calls, raised, log>>

\* A faulty iterator that hands out its current host again.
NextHostStays(its, s) == its

\* allocate_private_ips, line 197: ips_to_try.__next__() moves subnet s's
\* iterator on by one host.
NextHost(its, s) == [its EXCEPT ![s] = @ + 1]

\* A faulty probe whose exhausted iterator starts over at the subnet's first
\* host instead of raising StopIteration.
allocate_private_ips_probe_restart ==
    /\ pc = "allocate_private_ips"
    /\ step = "probe"
    /\ LET subs == subnets[region]
           s == (i % Len(subs)) + 1
           ip == Address(s, network_ips[s] + 1, i)
       IN IF network_ips[s] >= subs[s]
          THEN /\ network_ips' = [network_ips EXCEPT ![s] = 0]
               /\ UNCHANGED <<ctrl, exc, node_ips, in_use>>
          ELSE /\ network_ips' = NextHost(network_ips, s)
               /\ \/ /\ in_use' = in_use \cup {<<s, ip.host>>}
                     /\ UNCHANGED <<pc, step, ri, i, exc, node_ips>>
                  \/ /\ node_ips' = [node_ips EXCEPT ![region] = Record(@, ip)]
                     /\ IF MoreNodes(i)
                        THEN /\ i' = i + 1
                             /\ step' = "select"
                             /\ pc' = pc
                        ELSE /\ i' = 0
                             /\ step' = "start"
                             /\ pc' = "pick_seed_node_ips"
                     /\ UNCHANGED <<ri, exc, in_use>>
    /\ UNCHANGED <<inputs, image, taupage_amis, subnets, seed_count, seed_nodes,
                   security_groups, ip_permissions, bastion_lookup, taupage_user_data,
                   seeds_launched, instance, polls, aws_addresses, aws_associated,
                   aws_groups, aws_foreign_groups, aws_authorized, aws_instances,
                   calls, raised, log>>

\* allocate_private_ips, lines 193-207: take the subnet's next host
\* (StopIteration when there is none) and ask the provider whether an instance
\* holds it; the first one no instance holds is recorded.
allocate_private_ips_probe ==
    /\ pc = "allocate_private_ips"
    /\ step = "probe"
    /\ LET subs == subnets[region]
           s == (i % Len(subs)) + 1
           ip == Address(s, network_ips[s] + 1, i)
       IN IF network_ips[s] >= subs[s]
          THEN /\ Raise("StopIteration")
               /\ UNCHANGED <<network_ips, node_ips, in_use>>
          ELSE /\ network_ips' = NextHost(network_ips, s)
               /\ \/ \* resp['Reservations'] is not empty: try the next host
                     /\ in_use' = in_use \cup {<<s, ip.host>>}
                     /\ UNCHANGED <<pc, step, ri, i, exc, node_ips>>
                  \/ \* no instance holds it
                     /\ node_ips' = [node_ips EXCEPT ![region] = Record(@, ip)]
                     /\ IF MoreNodes(i)
                        THEN /\ i' = i + 1
                             /\ step' = "select"
                             /\ pc' = pc
                        ELSE /\ i' = 0
                             /\ step' = "start"
                             /\ pc' = "pick_seed_node_ips"
                     /\ UNCHANGED <<ri, exc, in_use>>
    /\ UNCHANGED <<inputs, image, taupage_amis, subnets, seed_count, seed_nodes,
                   security_groups, ip_permissions, bastion_lookup, taupage_user_data,
                   seeds_launched, instance, polls, aws_addresses, aws_associated,
                   aws_groups, aws_foreign_groups, aws_authorized, aws_instances, calls, raised, log>>

\* A faulty pick_seed_node_ips that takes the last addresses of every region.
pick_seed_node_ips_tail(ips_by_region, count) ==
    [r \in DOMAIN ips_by_region |->
        SubSeq(ips_by_region[r],
               Len(ips_by_region[r]) - Min(count, Len(ips_by_region[r])) + 1,
               Len(ips_by_region[r]))]

\* pick_seed_node_ips: the first seed_count addresses of every region.
pick_seed_node_ips(ips_by_region, count) ==
    [r \in DOMAIN ips_by_region |-> SubSeq(ips_by_region[r], 1, Min(count, Len(ips_by_region[r])))]

\* cli(), lines 513-515.
cli_pick_seed_node_ips ==
    /\ pc = "pick_seed_node_ips"
    /\ seed_count' = Min(cluster_size, MaxSeeds)
    /\ seed_nodes' = pick_seed_node_ips(node_ips, seed_count')
    /\ pc' = "setup_security_groups"
    /\ step' = "describe_vpcs"
    /\ UNCHANGED <<inputs, image, ri, i, taupage_amis, subnets, network_ips, node_ips,
                   security_groups, ip_permissions, bastion_lookup, taupage_user_data,
                   seeds_launched, instance, polls, aws, outcome>>

\* itertools.chain(*node_ips.values()): every region's addresses, in region order.
RECURSIVE Chain(_, _)
Chain(ips_by_region, k) ==
    IF k > Len(regions) THEN <<>>
    ELSE ips_by_region[regions[k]] \o Chain(ips_by_region, k + 1)

\* An ingress rule: protocol, port range and source (an address, the group
\* itself, or the bastion group).
Rule(proto, from, to, source, ip, group) ==
    [IpProtocol |-> proto, FromPort |-> from, ToPort |-> to,
     source |-> source, ip |-> ip, group |-> group]

\* setup_security_groups, lines 46-54: one rule for the address ip.
MeshRule(ip) == Rule("tcp", MeshPort, MeshPort, "cidr", ip, 0)

\* setup_security_groups, lines 58-59.
SelfRule(r) == Rule("-1", 0, 0, "self", Address(0, 0, 0), r)

\* setup_security_groups, lines 66-73.
SshRule == Rule("tcp", SshPort, SshPort, "odd", Address(0, 0, 0), 0)

\* A faulty rule list that opens the mesh port to the region's own addresses only.
BasePermissionsOwnRegion(r) ==
    LET mesh == IF internal THEN <<>>
                ELSE [k \in 1..Len(node_ips[r]) |-> MeshRule(node_ips[r][k])]
    IN mesh \o <<SelfRule(r)>>

\* setup_security_groups, lines 43-59: the rules assembled before the bastion lookup.
BasePermissions(r) ==
    LET all == Chain(node_ips, 1)
        mesh == IF internal THEN <<>> ELSE [k \in 1..Len(all) |-> MeshRule(all[k])]
    IN mesh \o <<SelfRule(r)>>

\* setup_security_groups, lines 30-33.
setup_security_groups_describe_vpcs ==
    /\ pc = "setup_security_groups"
    /\ step = "describe_vpcs"
    /\ step' = "create_security_group"
    /\ UNCHANGED <<inputs, image, pc, ri, i, run, aws, outcome>>

\* setup_security_groups, lines 35-38: the group is created and recorded; the
\* provider refuses a second group of the same name (InvalidGroup.Duplicate).
setup_security_groups_create ==
    /\ pc = "setup_security_groups"
    /\ step = "create_security_group"
    /\ IF region \in aws_foreign_groups
       THEN /\ Raise("create_security_group")
            /\ UNCHANGED <<aws_groups, security_groups>>
       ELSE /\ aws_groups' = aws_groups \cup {region}
            /\ security_groups' = Append(security_groups, region)
            /\ step' = "create_tags"
            /\ UNCHANGED <<pc, ri, i, exc>>
    /\ UNCHANGED <<aws_foreign_groups, calls, raised, log>>
    /\ UNCHANGED <<inputs, image, taupage_amis, subnets, network_ips, node_ips,
                   seed_count, seed_nodes, ip_permissions, bastion_lookup, taupage_user_data,
                   seeds_launched, instance, polls, aws_addresses, aws_associated,
                   aws_authorized, aws_instances, in_use>>

\* setup_security_groups, lines 40-59: the group is tagged, the mesh and self
\* rules are assembled.
setup_security_groups_create_tags ==
    /\ pc = "setup_security_groups"
    /\ step = "create_tags"
    /\ ip_permissions' = BasePermissions(region)
    /\ bastion_lookup' = ""
    /\ step' = "describe_security_groups"
    /\ UNCHANGED <<inputs, image, pc, ri, i, taupage_amis, subnets, network_ips, node_ips,
                   seed_count, seed_nodes, security_groups, taupage_user_data,
                   seeds_launched, instance, polls, aws, outcome>>

\* A faulty bastion lookup without the except clause: the ClientError leaves
\* setup_security_groups.
setup_security_groups_bastion_uncaught ==
    /\ pc = "setup_security_groups"
    /\ step = "describe_security_groups"
    /\ \/ /\ bastion_lookup' = "found"
          /\ ip_permissions' = Append(ip_permissions, SshRule)
          /\ step' = "authorize_security_group_ingress"
          /\ UNCHANGED <<pc, ri, i, exc>>
       \/ /\ bastion_lookup' = "ClientError"
          /\ UNCHANGED ip_permissions
          /\ Raise("describe_security_groups")
    /\ UNCHANGED <<inputs, image, taupage_amis, subnets, network_ips, node_ips,
                   seed_count, seed_nodes, security_groups, taupage_user_data,
                   seeds_launched, instance, polls, aws, calls, raised, log>>

\* setup_security_groups, lines 61-76: the bastion group is found and the SSH
\* rule added, or the lookup's ClientError is caught and the rule left out.
\* `except ClientError` catches nothing else: any other failure of the call
\* is a ProviderError.
setup_security_groups_bastion ==
    /\ pc = "setup_security_groups"
    /\ step = "describe_security_groups"
    /\ \/ /\ bastion_lookup' = "found"
          /\ ip_permissions' = Append(ip_permissions, SshRule)
       \/ /\ bastion_lookup' = "ClientError"
          /\ UNCHANGED ip_permissions
    /\ step' = "authorize_security_group_ingress"
    /\ UNCHANGED <<inputs, image, pc, ri, i, taupage_amis, subnets, network_ips, node_ips,
                   seed_count, seed_nodes, security_groups, taupage_user_data,
                   seeds_launched, instance, polls, aws, outcome>>

\* setup_security_groups, lines 78-79, and the loop over node_ips.items():
\* ip_permissions (as it stands before this step) is sent in one call; the
\* list is local to the function and gone when it returns.
setup_security_groups_authorize ==
    /\ pc = "setup_security_groups"
    /\ step = "authorize_security_group_ingress"
    /\ aws_authorized' = [aws_authorized EXCEPT ![region] = @ + 1]
    /\ IF ri < Len(regions)
       THEN /\ ri' = ri + 1
            /\ step' = "describe_vpcs"
            /\ pc' = pc
            /\ UNCHANGED <<ip_permissions, bastion_lookup>>
       ELSE /\ ri' = 1
            /\ step' = "start"
            /\ pc' = "generate_taupage_user_data"
            /\ ip_permissions' = <<>>
            /\ bastion_lookup' = ""
    /\ UNCHANGED <<inputs, image, i, taupage_amis, subnets, network_ips, node_ips, seed_count,
                   seed_nodes, security_groups, taupage_user_data, seeds_launched,
                   instance, polls, aws_addresses, aws_associated, aws_groups, aws_foreign_groups,
                   aws_instances, in_use, outcome>>

\* cli(), lines 519-520: the boot configuration (it asks the registry for the
\* image version).
generate_taupage_user_data ==
    /\ pc = "generate_taupage_user_data"
    /\ taupage_user_data' = TRUE
    /\ seeds_launched' = 0
    /\ pc' = "launch_seed_nodes"
    /\ step' = "run_instances"
    /\ UNCHANGED <<inputs, image, ri, i, taupage_amis, subnets, network_ips, node_ips,
                   seed_count, seed_nodes, security_groups, ip_permissions, bastion_lookup,
                   instance, polls, aws, outcome>>

\* ------------------------------------------------------------ the launches
\* A faulty launch_seed_nodes that walks node_ips instead of seed_nodes.
LoopIpsAllNodes == node_ips[region]

\* The addresses the current launch loop walks in the current region:
\* launch_seed_nodes walks seed_nodes, launch_normal_nodes walks node_ips.
LoopIps == IF pc = "launch_seed_nodes" THEN seed_nodes[region] ELSE node_ips[region]

\* One entry of the log: a launch (run_instances answered) or a pacing sleep.
Launch(r, index, is_seed) ==
    [op |-> "launch", region |-> r, index |-> index, is_seed |-> is_seed, secs |-> 0]

Sleep(is_seed) ==
    [op |-> "sleep", region |-> 0, index |-> 0, is_seed |-> is_seed, secs |-> PacingInterval]

\* launch_seed_nodes, line 395.
total_seed_count == seed_count * Len(regions)

\* A faulty launch_seed_nodes that sleeps after its last seed too.
SleepAfterEverySeed(launched) == launched <= total_seed_count

\* launch_seed_nodes, line 407: whether to sleep after a seed launch.
SleepAfterSeed(launched) == launched < total_seed_count

\* A faulty launch_normal_nodes that also passes over the first node after the seeds.
IsNormalNodeOffByOne(n) == n > seed_count

\* launch_normal_nodes, line 417: whether the node at index n is launched here.
IsNormalNode(n) == n >= seed_count

\* A faulty launch_normal_nodes that sleeps at every index, seeds included.
PacingBeforeEveryNode(n, l) == Append(l, Sleep(FALSE))

\* launch_normal_nodes, lines 417-420: the sleep before a normal node's launch.
PacingBefore(n, l) == IF IsNormalNode(n) THEN Append(l, Sleep(FALSE)) ELSE l

\* A faulty launch that places every instance in the region's first subnet.
SubnetOfFirst(n, subs) == 1

\* subnets[i % len(subnets)]['SubnetId'], lines 402 and 423 (the position in
\* the region's subnet list stands for the id).
SubnetOf(n, subs) == (n % Len(subs)) + 1

\* launch_instance, lines 309-312: the deep copy of an image's Ebs entry,
\* its Encrypted key deleted.
RootEbs(bd) == [bd EXCEPT !.Encrypted = "absent"]

\* launch_instance, lines 316-317: the marker that stands for an image entry
\* without an Ebs dict.
NoDevice(bd) == Mapping(bd.DeviceName, "NoDevice", "absent")

\* launch_instance, lines 320-332: the data volume's entry.
DataEbs == Mapping(DataDeviceName, "Ebs", "true")

\* launch_instance, lines 296-332: the block-device list of the boot request
\* for an image with the given mappings.
BlockDeviceList(mappings) ==
    [k \in 1..Len(mappings) |->
        IF mappings[k].kind = "Ebs" THEN RootEbs(mappings[k]) ELSE NoDevice(mappings[k])]
        \o <<DataEbs>>

\* launch_instance, lines 296-332 alone: the list is assembled from the
\* image's mappings, which the deep copy leaves as they are.
launch_instance_block_devices ==
    /\ block_devices = <<>>
    /\ block_devices' = BlockDeviceList(block_device_mappings)
    /\ UNCHANGED <<inputs, ctrl, run, aws, outcome, block_device_mappings>>

\* launch_instance, lines 296-352: the block-device list and the boot request.  The subnet argument is
\* computed first (ZeroDivisionError when the region has no subnet).  The
\* provider decides whether the instance ever leaves the pending state
\* (stuck: it never does).
launch_instance_run_instances ==
    /\ pc \in {"launch_seed_nodes", "launch_normal_nodes"}
    /\ step = "run_instances"
    /\ IF Len(subnets[region]) = 0
       THEN /\ Raise("ZeroDivisionError")
            /\ UNCHANGED <<instance, aws_instances, log, block_devices>>
       ELSE /\ block_devices' = BlockDeviceList(block_device_mappings)
            /\ \E stuck \in BOOLEAN : aws_instances' = Append(aws_instances,
                   [region |-> region,
                    ip |-> LoopIps[i + 1],
                    SubnetId |-> SubnetOf(i, subnets[region]),
                    PrivateIpAddress |-> internal,
                    is_seed |-> (pc = "launch_seed_nodes"),
                    state |-> "pending",
                    stuck |-> stuck])
            /\ instance' = Len(aws_instances) + 1
            /\ log' = Append(log, Launch(region, i, pc = "launch_seed_nodes"))
            /\ step' = "create_tags"
            /\ UNCHANGED <<pc, ri, i, exc>>
    /\ polls' = 0
    /\ UNCHANGED <<inputs, block_device_mappings, taupage_amis, subnets, network_ips, node_ips, seed_count,
                   seed_nodes, security_groups, ip_permissions, bastion_lookup, taupage_user_data,
                   seeds_launched, aws_addresses, aws_associated, aws_groups, aws_foreign_groups,
                   aws_authorized, in_use, calls, raised>>

\* A faulty launch_instance without the wait loop.
launch_instance_create_tags_no_wait ==
    /\ pc \in {"launch_seed_nodes", "launch_normal_nodes"}
    /\ step = "create_tags"
    /\ step' = IF internal THEN "tag_volume" ELSE "associate_address"
    /\ UNCHANGED <<inputs, image, pc, ri, i, run, aws, outcome>>

\* launch_instance, lines 354-355: the instance is tagged.
launch_instance_create_tags ==
    /\ pc \in {"launch_seed_nodes", "launch_normal_nodes"}
    /\ step = "create_tags"
    /\ step' = "describe_instances"
    /\ UNCHANGED <<inputs, image, pc, ri, i, run, aws, outcome>>

\* A faulty wait loop that gives up after MaxPolls pending answers.
launch_instance_describe_instances_timeout ==
    /\ pc \in {"launch_seed_nodes", "launch_normal_nodes"}
    /\ step = "describe_instances"
    /\ \/ /\ polls < MaxPolls
          /\ polls' = polls + 1
          /\ UNCHANGED <<pc, step, ri, i, exc, aws_instances>>
       \/ /\ polls >= MaxPolls
          /\ aws_instances[instance].stuck
          /\ Raise("TimeoutError")
          /\ UNCHANGED <<polls, aws_instances>>
       \/ /\ ~aws_instances[instance].stuck
          /\ aws_instances' = [aws_instances EXCEPT ![instance].state = "running"]
          /\ step' = IF internal THEN "tag_volume" ELSE "associate_address"
          /\ polls' = 0
          /\ UNCHANGED <<pc, ri, i, exc>>
    /\ UNCHANGED <<inputs, image, taupage_amis, subnets, network_ips, node_ips,
                   seed_count, seed_nodes, security_groups, ip_permissions, bastion_lookup,
                   taupage_user_data, seeds_launched, instance, aws_addresses,
                   aws_associated, aws_groups, aws_foreign_groups, aws_authorized, in_use,
                   calls, raised, log>>

\* launch_instance, lines 359-365: poll until the instance is not pending.
\* The loop has no counter; polls counts the pending answers up to MaxPolls.
launch_instance_describe_instances ==
    /\ pc \in {"launch_seed_nodes", "launch_normal_nodes"}
    /\ step = "describe_instances"
    /\ \/ /\ polls < MaxPolls \/ aws_instances[instance].stuck
          /\ polls' = Min(polls + 1, MaxPolls)
          /\ UNCHANGED <<step, aws_instances>>
       \/ /\ ~aws_instances[instance].stuck
          /\ aws_instances' = [aws_instances EXCEPT ![instance].state = "running"]
          /\ step' = IF internal THEN "tag_volume" ELSE "associate_address"
          /\ polls' = 0
    /\ UNCHANGED <<inputs, image, pc, ri, i, taupage_amis, subnets, network_ips, node_ips,
                   seed_count, seed_nodes, security_groups, ip_permissions, bastion_lookup,
                   taupage_user_data, seeds_launched, instance, aws_addresses,
                   aws_associated, aws_groups, aws_foreign_groups, aws_authorized, in_use, outcome>>

\* launch_instance, lines 367-369: public mode only.
launch_instance_associate_address ==
    /\ pc \in {"launch_seed_nodes", "launch_normal_nodes"}
    /\ step = "associate_address"
    /\ aws_associated' = aws_associated \cup {aws_instances[instance].ip}
    /\ step' = "tag_volume"
    /\ UNCHANGED <<inputs, image, pc, ri, i, run, aws_addresses, aws_groups, aws_foreign_groups, aws_authorized,
                   aws_instances, in_use, outcome>>

\* launch_instance, lines 372-375: the data volume is tagged.
launch_instance_tag_volume ==
    /\ pc \in {"launch_seed_nodes", "launch_normal_nodes"}
    /\ step = "tag_volume"
    /\ step' = "put_metric_alarm"
    /\ UNCHANGED <<inputs, image, pc, ri, i, run, aws, outcome>>

\* launch_instance, lines 378-391: the auto-recovery alarm; launch_instance returns.
launch_instance_put_metric_alarm ==
    /\ pc \in {"launch_seed_nodes", "launch_normal_nodes"}
    /\ step = "put_metric_alarm"
    /\ step' = "launched"
    /\ instance' = 0
    /\ UNCHANGED <<inputs, image, pc, ri, i, taupage_amis, subnets, network_ips, node_ips,
                   seed_count, seed_nodes, security_groups, ip_permissions, bastion_lookup,
                   taupage_user_data, seeds_launched, polls, aws, outcome>>

\* launch_seed_nodes, lines 406-409 and the two loops: count the seed, sleep
\* unless it was the last one, go to the next seed or on to launch_normal_nodes.
launch_seed_nodes ==
    /\ pc = "launch_seed_nodes"
    /\ step = "launched"
    /\ seeds_launched' = seeds_launched + 1
    /\ log' = IF SleepAfterSeed(seeds_launched') THEN Append(log, Sleep(TRUE)) ELSE log
    /\ IF i + 1 < Len(LoopIps)
       THEN /\ i' = i + 1
            /\ step' = "run_instances"
            /\ UNCHANGED <<pc, ri>>
       ELSE /\ i' = 0
            /\ IF ri < Len(regions)
               THEN /\ ri' = ri + 1
                    /\ step' = "run_instances"
                    /\ pc' = pc
               ELSE /\ ri' = 1
                    /\ step' = "loop"
                    /\ pc' = "launch_normal_nodes"
    /\ UNCHANGED <<inputs, image, taupage_amis, subnets, network_ips, node_ips, seed_count,
                   seed_nodes, security_groups, ip_permissions, bastion_lookup, taupage_user_data,
                   instance, polls, aws, calls, exc, raised>>

\* The next index of launch_normal_nodes' loops, or the end of the function.
NormalLoopAdvance ==
    IF i + 1 < Len(node_ips[region])
    THEN /\ i' = i + 1
         /\ step' = "loop"
         /\ UNCHANGED <<pc, ri>>
    ELSE /\ i' = 0
         /\ IF ri < Len(regions)
            THEN /\ ri' = ri + 1
                 /\ step' = "loop"
                 /\ pc' = pc
            ELSE /\ ri' = 1
                 /\ step' = "start"
                 /\ pc' = "print_success_message"

\* launch_normal_nodes, lines 414-420: a node that is not a seed is launched
\* after a sleep; a seed is passed over.
launch_normal_nodes_loop ==
    /\ pc = "launch_normal_nodes"
    /\ step = "loop"
    /\ log' = PacingBefore(i, log)
    /\ IF IsNormalNode(i)
       THEN /\ step' = "run_instances"
            /\ UNCHANGED <<pc, ri, i>>
       ELSE NormalLoopAdvance
    /\ UNCHANGED <<inputs, image, run, aws, calls, exc, raised>>

\* launch_normal_nodes: launch_instance has returned.
launch_normal_nodes_launched ==
    /\ pc = "launch_normal_nodes"
    /\ step = "launched"
    /\ NormalLoopAdvance
    /\ UNCHANGED <<inputs, image, run, aws, outcome>>

\* cli(), line 527.
print_success_message ==
    /\ pc = "print_success_message"
    /\ pc' = "success"
    /\ UNCHANGED <<inputs, image, step, ri, i, run, aws, outcome>>

\* ------------------------------------------------- the provider's failures
\* The provider (or registry) call the program is about to make, "" when its
\* next step makes none.
CallSite ==
    CASE pc \in {"find_taupage_amis", "get_subnets", "allocate_public_ips",
                 "generate_taupage_user_data"} -> pc
      [] pc = "allocate_private_ips" /\ step = "probe"
            /\ network_ips[SubnetOf(i, subnets[region])]
                   < subnets[region][SubnetOf(i, subnets[region])] -> "describe_instances"
      [] pc = "setup_security_groups" -> step
      [] pc \in {"launch_seed_nodes", "launch_normal_nodes"}
            /\ step \notin {"loop", "launched"}
            /\ Len(subnets[region]) > 0 -> step
      [] OTHER -> ""

\* Any call made inside the try block fails (the bastion lookup's ClientError
\* aside, which setup_security_groups catches): the exception reaches the
\* except block of cli().
ProviderError ==
    /\ CallSite # ""
    /\ Raise(CallSite)
    /\ UNCHANGED <<inputs, image, run, aws, calls, raised, log>>

\* ------------------------------------------------------- the except block
\* A faulty except block that terminates the region's instances before it
\* deletes the region's group.
except_delete_security_group_and_instances ==
    /\ pc = "except"
    /\ step = "start"
    /\ ri <= Len(security_groups)
    /\ calls' = calls \o <<[op |-> "terminate_instances",
                             region |-> security_groups[ri], ip |-> Address(0, 0, 0)],
                            [op |-> "delete_security_group",
                             region |-> security_groups[ri], ip |-> Address(0, 0, 0)]>>
    /\ aws_instances' = [n \in 1..Len(aws_instances) |->
                            IF aws_instances[n].region = security_groups[ri]
                            THEN [aws_instances[n] EXCEPT !.state = "terminated"]
                            ELSE aws_instances[n]]
    /\ aws_groups' = aws_groups \ {security_groups[ri]}
    /\ ri' = ri + 1
    /\ UNCHANGED <<inputs, image, pc, step, i, run, aws_addresses, aws_associated,
                   aws_foreign_groups, aws_authorized, in_use, exc, raised, log>>

\* A faulty except block that deletes, in every region of the run, the group
\* that bears the cluster's name.
except_delete_security_group_by_name ==
    /\ pc = "except"
    /\ step = "start"
    /\ ri <= Len(regions)
    /\ calls' = Append(calls, [op |-> "delete_security_group",
                               region |-> regions[ri], ip |-> Address(0, 0, 0)])
    /\ aws_groups' = aws_groups \ {regions[ri]}
    /\ aws_foreign_groups' = aws_foreign_groups \ {regions[ri]}
    /\ ri' = ri + 1
    /\ UNCHANGED <<inputs, image, pc, step, i, run, aws_addresses, aws_associated,
                   aws_authorized, aws_instances, in_use, exc, raised, log>>

\* cli(), lines 533-536: delete the recorded groups, in the order recorded.
\* A failing delete leaves cli() with that failure.
except_delete_security_group ==
    /\ pc = "except"
    /\ step = "start"
    /\ ri <= Len(security_groups)
    /\ calls' = Append(calls, [op |-> "delete_security_group",
                               region |-> security_groups[ri], ip |-> Address(0, 0, 0)])
    /\ \/ /\ aws_groups' = aws_groups \ {security_groups[ri]}
          /\ ri' = ri + 1
          /\ UNCHANGED <<pc, raised>>
       \/ /\ raised' = "delete_security_group"
          /\ pc' = "raised"
          /\ UNCHANGED <<aws_groups, ri>>
    /\ UNCHANGED <<inputs, image, step, i, run, aws_addresses, aws_associated,
                   aws_foreign_groups, aws_authorized, aws_instances, in_use, exc, log>>

\* A faulty except block that releases the recorded addresses in either mode.
ReleasesAddressesAlways == TRUE

\* cli(), line 538: `if not options['internal']`.
ReleasesAddresses == ~internal

\* cli(), line 538: after the groups, the addresses of a public run.
except_security_groups_done ==
    /\ pc = "except"
    /\ step = "start"
    /\ ri > Len(security_groups)
    /\ step' = IF ReleasesAddresses THEN "release_address" ELSE "raise"
    /\ ri' = 1
    /\ i' = 0
    /\ UNCHANGED <<inputs, image, pc, run, aws, outcome>>

\* cli(), lines 539-543: release every recorded address, region by region.
\* A failing release leaves cli() with that failure.
except_release_address ==
    /\ pc = "except"
    /\ step = "release_address"
    /\ ri <= Len(regions)
    /\ IF i < Len(node_ips[region])
       THEN LET ip == node_ips[region][i + 1]
            IN /\ calls' = Append(calls, [op |-> "release_address",
                                          region |-> region, ip |-> ip])
               /\ \/ /\ aws_addresses' = aws_addresses \ {ip}
                     /\ aws_associated' = aws_associated \ {ip}
                     /\ i' = i + 1
                     /\ UNCHANGED <<pc, raised>>
                  \/ /\ raised' = "release_address"
                     /\ pc' = "raised"
                     /\ UNCHANGED <<aws_addresses, aws_associated, i>>
               /\ ri' = ri
       ELSE /\ ri' = ri + 1
            /\ i' = 0
            /\ UNCHANGED <<pc, calls, raised, aws_addresses, aws_associated>>
    /\ UNCHANGED <<inputs, image, step, run, aws_groups, aws_foreign_groups, aws_authorized, aws_instances,
                   in_use, exc, log>>

\* cli(), line 545: the failure that entered the except block is raised again.
except_raise ==
    /\ pc = "except"
    /\ \/ step = "raise"
       \/ step = "release_address" /\ ri > Len(regions)
    /\ raised' = exc
    /\ pc' = "raised"
    /\ UNCHANGED <<inputs, image, step, ri, i, run, aws, calls, exc, log>>

Next ==
    \/ generate_certificate
    \/ find_taupage_amis
    \/ get_subnets
    \/ allocate_public_ips
    \/ allocate_private_ips_select
    \/ allocate_private_ips_probe
    \/ cli_pick_seed_node_ips
    \/ setup_security_groups_describe_vpcs
    \/ setup_security_groups_create
    \/ setup_security_groups_create_tags
    \/ setup_security_groups_bastion
    \/ setup_security_groups_authorize
    \/ generate_taupage_user_data
    \/ launch_instance_run_instances
    \/ launch_instance_create_tags
    \/ launch_instance_describe_instances
    \/ launch_instance_associate_address
    \/ launch_instance_tag_volume
    \/ launch_instance_put_metric_alarm
    \/ launch_seed_nodes
    \/ launch_normal_nodes_loop
    \/ launch_normal_nodes_launched
    \/ print_success_message
    \/ ProviderError
    \/ except_delete_security_group
    \/ except_security_groups_done
    \/ except_release_address
    \/ except_raise

Spec == Init /\ [][Next]_vars

\* The steps the program takes by itself: everything but a failure injected by
\* the provider.
Step ==
    \/ generate_certificate
    \/ find_taupage_amis
    \/ get_subnets
    \/ allocate_public_ips
    \/ allocate_private_ips_select
    \/ allocate_private_ips_probe
    \/ cli_pick_seed_node_ips
    \/ setup_security_groups_describe_vpcs
    \/ setup_security_groups_create
    \/ setup_security_groups_create_tags
    \/ setup_security_groups_bastion
    \/ setup_security_groups_authorize
    \/ generate_taupage_user_data
    \/ launch_instance_run_instances
    \/ launch_instance_create_tags
    \/ launch_instance_describe_instances
    \/ launch_instance_associate_address
    \/ launch_instance_tag_volume
    \/ launch_instance_put_metric_alarm
    \/ launch_seed_nodes
    \/ launch_normal_nodes_loop
    \/ launch_normal_nodes_launched
    \/ print_success_message
    \/ except_delete_security_group
    \/ except_security_groups_done
    \/ except_release_address
    \/ except_raise

\* cli() is one sequential thread in which every provider call returns (with
\* an answer or with a failure): it always takes its next step.
FairSpec == Spec /\ WF_vars(Step)

\* The block-device list on its own, for every image mapping list up to
\* MaxMappings entries.
BlockInit ==
    /\ InitWith(MappingLists)
    /\ ~internal
    /\ regions = <<1>>
    /\ cluster_size = 1
    /\ aws_foreign_groups = {}

BlockNext == launch_instance_block_devices

BlockSpec == BlockInit /\ [][BlockNext]_vars

\* ------------------------------------------------------------------ claims
\* Whether sequence s is a prefix of sequence t.
IsPrefix(s, t) == Len(s) <= Len(t) /\ \A k \in 1..Len(s) : s[k] = t[k]

\* The launches of the log, in order.
IsLaunch(e) == e.op = "launch"
Launches == SelectSeq(log, IsLaunch)

\* The launches of indices lo..hi-1 in regions k, k+1, ..., region by region.
RECURSIVE LaunchesFrom(_, _, _, _)
LaunchesFrom(k, lo, hi, is_seed) ==
    IF k > Len(regions) THEN <<>>
    ELSE [n \in 1..(hi - lo) |-> Launch(regions[k], lo + n - 1, is_seed)]
         \o LaunchesFrom(k + 1, lo, hi, is_seed)

\* The order the launches are to come in: every region's seeds, then every
\* region's normal nodes.
SeedsThenNormals ==
    LET k == Min(cluster_size, MaxSeeds)
    IN LaunchesFrom(1, 0, k, TRUE) \o LaunchesFrom(1, k, cluster_size, FALSE)

\* C1: the launches issued so far are always an initial part of: the seeds of
\* the first region, the seeds of the next region, ..., then the normal nodes
\* of the first region, then those of the next; so no normal node is launched
\* before every seed of every region is.
C1_SeedsBeforeNormals == IsPrefix(Launches, SeedsThenNormals)

\* C1's case: a two-region run has launched a normal node of its second region.
C1_Witness ==
    /\ Len(regions) = 2
    /\ \E k \in 1..Len(log) : IsLaunch(log[k]) /\ ~log[k].is_seed /\ log[k].region = regions[2]

\* The stage of the orchestrator a program position belongs to, failure last.
StageRank(p) ==
    CASE p = "generate_certificate" -> 0
      [] p = "find_taupage_amis" -> 1
      [] p \in {"get_subnets", "allocate_public_ips", "allocate_private_ips"} -> 2
      [] p = "pick_seed_node_ips" -> 3
      [] p = "setup_security_groups" -> 4
      [] p = "generate_taupage_user_data" -> 5
      [] p = "launch_seed_nodes" -> 6
      [] p = "launch_normal_nodes" -> 7
      [] p \in {"print_success_message", "success"} -> 8
      [] OTHER -> 9

FailureRank == StageRank("except")

\* Every region of the run has its cluster_size addresses.
AllocationComplete == \A r \in Range(regions) : Len(node_ips[r]) = cluster_size

\* Every region of the run has its group, created, recorded and authorized.
FirewallComplete ==
    \A r \in Range(regions) :
        r \in aws_groups /\ r \in Range(security_groups) /\ aws_authorized[r] > 0

\* C2: a step stays in its stage, goes to the next one, or goes to failure,
\* never back and never past a stage; a security group is created only when
\* every region has its addresses, and an instance is launched only when every
\* region has its group.
C2_StagesInOrder ==
    /\ [][\/ StageRank(pc') = StageRank(pc)
          \/ StageRank(pc') = StageRank(pc) + 1
          \/ StageRank(pc') = FailureRank]_vars
    /\ [][aws_groups' # aws_groups /\ pc # "except" => AllocationComplete]_vars
    /\ [][aws_instances' # aws_instances => FirewallComplete]_vars

\* C2's case: a two-region run went through every stage to success.
C2_Witness ==
    /\ pc = "success"
    /\ Len(regions) = 2
    /\ Len(aws_instances) = 2 * cluster_size

\* The except block has been entered (nothing is rolled back when the
\* keystore generation before the try block fails).
RolledBack == pc = "raised" /\ exc # "generate_certificate"

\* A delete of region r's group is among the except block's calls.
DeleteIssued(r) ==
    \E k \in 1..Len(calls) : calls[k].op = "delete_security_group" /\ calls[k].region = r

\* A release of address ip of region r is among the except block's calls.
ReleaseIssued(r, ip) ==
    \E k \in 1..Len(calls) :
        calls[k].op = "release_address" /\ calls[k].region = r /\ calls[k].ip = ip

\* The addresses recorded for the run's regions.
Recorded == UNION {Range(node_ips[r]) : r \in Range(regions)}

\* C3: when the except block is over, a delete has been issued for every
\* security group the run created.
C3_EveryGroupDeleted ==
    RolledBack => \A r \in Range(security_groups) : DeleteIssued(r)

\* C4: in public mode the addresses reserved at the provider are, until the
\* except block runs, exactly the recorded ones, and when the except block is
\* over a release has been issued for every one of them.
C4_EveryAddressReleased ==
    ~internal =>
        /\ pc \notin {"except", "raised"} => aws_addresses = Recorded
        /\ RolledBack => \A r \in Range(regions) :
                             \A ip \in Range(node_ips[r]) : ReleaseIssued(r, ip)

\* C5: a run with a failed stage never reaches the success report, and the
\* failure that leaves cli() is the one that entered the except block.
C5_OriginalFailureRaised ==
    /\ exc # "" => pc \in {"except", "raised"}
    /\ pc = "raised" => raised = exc

\* C6: whatever cleanup call fails, when the except block is over every
\* cleanup call has been made: one delete per recorded group and, in public
\* mode, one release per recorded address.
C6_CleanupBestEffort ==
    RolledBack =>
        Len(calls) = Len(security_groups)
                     + (IF internal THEN 0 ELSE Cardinality(Recorded))

\* C7: the run's provider calls in the except block are deletes of security
\* groups and releases of addresses only, and every instance launched is still
\* there, pending or running: none is ever terminated.
C7_NoTermination ==
    /\ \A k \in 1..Len(calls) : calls[k].op \in {"delete_security_group", "release_address"}
    /\ Len(aws_instances) = Len(Launches)
    /\ \A n \in 1..Len(aws_instances) : aws_instances[n].state \in {"pending", "running"}

\* C7's case: a normal node's launch failed with instances running, and the
\* rollback has deleted a group and released an address.
C7_Witness ==
    /\ RolledBack
    /\ \E k \in 1..Len(log) : IsLaunch(log[k]) /\ ~log[k].is_seed
    /\ \E n \in 1..Len(aws_instances) : aws_instances[n].state = "running"
    /\ \E k \in 1..Len(calls) : calls[k].op = "delete_security_group"
    /\ \E k \in 1..Len(calls) : calls[k].op = "release_address"

\* The seed launches and the sleeps of launch_seed_nodes, in order.
OfSeedStage(e) == e.is_seed
SeedLog == SelectSeq(log, OfSeedStage)

IsSleep(e) == e.op = "sleep"

\* The number of seeds of a run: min(cluster_size, 3) in each region.
TotalSeeds == Min(cluster_size, MaxSeeds) * Len(regions)

\* C8: in launch_seed_nodes launches and sleeps alternate, starting with a
\* launch (one sleep of 60 between two consecutive seed launches, whatever
\* their regions), there are never more than TotalSeeds - 1 sleeps (none
\* after the last seed), and once the seed stage is over there are exactly
\* TotalSeeds - 1.
C8_SeedPacing ==
    /\ \A k \in 1..Len(SeedLog) :
          IF k % 2 = 1 THEN IsLaunch(SeedLog[k])
          ELSE IsSleep(SeedLog[k]) /\ SeedLog[k].secs = PacingInterval
    /\ Len(SelectSeq(SeedLog, IsSleep)) <= TotalSeeds - 1
    /\ pc \in {"launch_normal_nodes", "print_success_message", "success"} =>
          /\ Len(SelectSeq(SeedLog, IsLaunch)) = TotalSeeds
          /\ Len(SelectSeq(SeedLog, IsSleep)) = TotalSeeds - 1
    /\ \A k \in 1..Len(log) :
          IsSleep(log[k]) /\ log[k].is_seed =>
              k > 1 /\ IsLaunch(log[k - 1]) /\ log[k - 1].is_seed

\* C8's case: the seed stage of a two-region run is over, with a sleep between
\* the last seed of the first region and the first seed of the second.
C8_Witness ==
    /\ pc = "launch_normal_nodes"
    /\ Len(regions) = 2
    /\ \E k \in 2..(Len(log) - 1) :
          /\ IsSleep(log[k])
          /\ log[k - 1].region = regions[1]
          /\ log[k + 1].region = regions[2]

\* The normal launches and the sleeps of launch_normal_nodes, in order.
OfNormalStage(e) == ~e.is_seed
NormalLog == SelectSeq(log, OfNormalStage)

\* The number of normal nodes of a run.
TotalNormals == (cluster_size - Min(cluster_size, MaxSeeds)) * Len(regions)

\* C9: in launch_normal_nodes sleeps and launches alternate, starting with a
\* sleep (every normal launch comes right after exactly one sleep of 60),
\* there are never more sleeps than normal nodes (none when cluster_size is
\* at most the seed count), and at success there are exactly as many.
C9_NormalPacing ==
    /\ \A k \in 1..Len(NormalLog) :
          IF k % 2 = 1 THEN IsSleep(NormalLog[k]) /\ NormalLog[k].secs = PacingInterval
          ELSE IsLaunch(NormalLog[k])
    /\ \A k \in 1..Len(log) :
          IsLaunch(log[k]) /\ ~log[k].is_seed =>
              k > 1 /\ IsSleep(log[k - 1]) /\ ~log[k - 1].is_seed
    /\ Len(SelectSeq(NormalLog, IsSleep)) <= TotalNormals
    /\ pc = "success" =>
          /\ Len(SelectSeq(NormalLog, IsSleep)) = TotalNormals
          /\ Len(SelectSeq(NormalLog, IsLaunch)) = TotalNormals

\* C9's case: a successful run that launched normal nodes in two regions.
C9_Witness ==
    /\ pc = "success"
    /\ Len(regions) = 2
    /\ cluster_size > MaxSeeds
    /\ Len(SelectSeq(NormalLog, IsLaunch)) = 2 * (cluster_size - MaxSeeds)

\* C10: once the address allocation is over without failure, every region of
\* the run has exactly cluster_size addresses, the one allocated for index i
\* at position i.
C10_AddressesPerRegion ==
    StageRank(pc) > StageRank("allocate_public_ips") /\ StageRank(pc) < FailureRank =>
        \A r \in Range(regions) :
            /\ Len(node_ips[r]) = cluster_size
            /\ \A k \in 1..Len(node_ips[r]) : node_ips[r][k].index = k - 1

\* C10's case: the allocation of a public two-region run is just over.
C10_Witness ==
    /\ pc = "pick_seed_node_ips"
    /\ ~internal
    /\ Len(regions) = 2
    /\ cluster_size > 1

\* C10's case in private mode: an allocation that had to pass over addresses in use.
C10_WitnessPrivate ==
    /\ pc = "pick_seed_node_ips"
    /\ internal
    /\ cluster_size > 1
    /\ in_use # {}

\* The private addresses recorded so far, as (subnet, host) pairs, in order.
PrivateIps == [k \in 1..Len(node_ips[regions[1]]) |->
                  <<node_ips[regions[1]][k].net, node_ips[regions[1]][k].host>>]

\* C11: in private mode the recorded addresses are pairwise distinct, and none
\* of them is an address a probe found held by an instance.
C11_PrivateIpsDistinctAndFree ==
    internal =>
        /\ \A j, k \in 1..Len(PrivateIps) : j # k => PrivateIps[j] # PrivateIps[k]
        /\ \A k \in 1..Len(PrivateIps) : PrivateIps[k] \notin in_use

\* C11's case: a private allocation is over that took two addresses from one
\* subnet and passed over an address in use.
C11_Witness ==
    /\ internal
    /\ pc = "pick_seed_node_ips"
    /\ cluster_size > Len(subnets[regions[1]])
    /\ in_use # {}

\* ------------------------------------------------------------------- C12
\* The subnet chosen for node i has no host left for the allocator to take:
\* fewer hosts than the ones skipped on the first visit, or every remaining
\* host already handed out by the iterator.
Exhausted ==
    /\ pc = "allocate_private_ips"
    /\ Len(subnets[region]) > 0
    /\ \/ /\ step \in {"start", "select"}
          /\ i < Len(subnets[region])
          /\ subnets[region][SubnetOf(i, subnets[region])] < SkipHosts
       \/ /\ step = "probe"
          /\ network_ips[SubnetOf(i, subnets[region])]
                 >= subnets[region][SubnetOf(i, subnets[region])]

SeedsPicked == seed_count # 0

\* C13 as stated: seed_count is min(cluster_size, 3) and every region's seed
\* list is a strict prefix of the region's address list (a prefix shorter than
\* the list).
C13_StrictPrefix ==
    SeedsPicked =>
        /\ seed_count = Min(cluster_size, MaxSeeds)
        /\ \A r \in Range(regions) :
               /\ IsPrefix(seed_nodes[r], node_ips[r])
               /\ Len(seed_nodes[r]) < Len(node_ips[r])

\* C13, amended: seed_count is min(cluster_size, 3) and every region's seed
\* list is the prefix of length seed_count of the region's address list, in
\* the original order; it is shorter than the list exactly when cluster_size
\* exceeds 3 and is the whole list otherwise.
C13_SeedsArePrefix ==
    SeedsPicked =>
        /\ seed_count = Min(cluster_size, MaxSeeds)
        /\ \A r \in Range(regions) :
               /\ IsPrefix(seed_nodes[r], node_ips[r])
               /\ Len(seed_nodes[r]) = seed_count
               /\ Len(seed_nodes[r]) < Len(node_ips[r]) <=> cluster_size > MaxSeeds
               /\ cluster_size <= MaxSeeds => seed_nodes[r] = node_ips[r]

\* Two regions of two nodes each: both nodes of each region are seeds.
C13_Witness ==
    /\ SeedsPicked
    /\ Len(regions) = 2
    /\ cluster_size = 2
    /\ \A r \in Range(regions) : Len(seed_nodes[r]) = 2 /\ seed_nodes[r] = node_ips[r]

\* ------------------------------------------------------------------- C14
\* The program is about to call authorize_security_group_ingress for the
\* region: ip_permissions is the rule list of that call.
AtAuthorize == pc = "setup_security_groups" /\ step = "authorize_security_group_ingress"

\* The positions of the rule list that hold a mesh rule (tcp, port 7001, from
\* an address).
MeshRules ==
    {k \in 1..Len(ip_permissions) :
        /\ ip_permissions[k].IpProtocol = "tcp"
        /\ ip_permissions[k].FromPort = MeshPort
        /\ ip_permissions[k].ToPort = MeshPort
        /\ ip_permissions[k].source = "cidr"}

\* The positions of the rule list that hold an all-protocol rule from a group
\* to itself.
SelfRules ==
    {k \in 1..Len(ip_permissions) :
        ip_permissions[k].IpProtocol = "-1" /\ ip_permissions[k].source = "self"}

\* C14: the rule list of a region's authorization call holds, in public mode,
\* exactly one mesh rule per node address of every region (cluster_size times
\* the number of regions in all) and in internal mode none; it always holds
\* exactly one self rule, the one of the region's own group.  No region ever
\* gets a second authorization call, and once the firewall stage is over
\* every region has had exactly one.
C14_RulesPerRegion ==
    /\ AtAuthorize =>
          /\ internal => MeshRules = {}
          /\ ~internal =>
                /\ Cardinality(MeshRules) = cluster_size * Len(regions)
                /\ \A ip \in Recorded :
                      Cardinality({k \in MeshRules : ip_permissions[k].ip = ip}) = 1
          /\ Cardinality(SelfRules) = 1
          /\ \A k \in SelfRules : ip_permissions[k] = SelfRule(region)
    /\ \A r \in Range(regions) : aws_authorized[r] <= 1
    /\ StageRank(pc) \in 5..8 => \A r \in Range(regions) : aws_authorized[r] = 1

\* The second region's authorization call of a public run of several nodes.
C14_Witness ==
    /\ AtAuthorize
    /\ ~internal
    /\ Len(regions) = 2
    /\ ri = 2
    /\ cluster_size >= 2
    /\ aws_authorized[regions[1]] = 1

\* ------------------------------------------------------------------- C15
\* The provider calls of setup_security_groups.
FirewallCalls ==
    {"describe_vpcs", "create_security_group", "create_tags",
     "describe_security_groups", "authorize_security_group_ingress"}

\* What holds of the rule list, whatever the lookup answered: the SSH rule is
\* in the list sent exactly when the lookup found the bastion group, the mesh
\* and self rules are in it either way, and the run has not failed.
RulesAfterLookup ==
    AtAuthorize =>
        /\ bastion_lookup \in {"found", "ClientError"}
        /\ (\E k \in 1..Len(ip_permissions) : ip_permissions[k] = SshRule)
               <=> bastion_lookup = "found"
        /\ IsPrefix(BasePermissions(region), ip_permissions)
        /\ exc = ""

\* A failure of one of the other calls of setup_security_groups has entered
\* the except block.
FirewallFailureAborts ==
    exc \in FirewallCalls \ {"describe_security_groups"} => pc \in {"except", "raised"}

\* C15 as stated: no failure of the bastion lookup is ever the failure that
\* aborts the run.
C15_LookupNeverAborts ==
    /\ exc # "describe_security_groups"
    /\ RulesAfterLookup
    /\ FirewallFailureAborts

\* C15, amended: a bastion lookup that fails with the provider's ClientError
\* never aborts the run (the SSH rule is then absent, the mesh and self rules
\* are still sent, the run goes on to the authorization call), and the SSH
\* rule is present exactly when the lookup succeeds.  A lookup that fails in
\* any other way aborts the run like every other failing call of the firewall
\* setup.
C15_ClientErrorNeverAborts ==
    /\ bastion_lookup = "ClientError" => exc # "describe_security_groups"
    /\ RulesAfterLookup
    /\ FirewallFailureAborts
    /\ exc = "describe_security_groups" => pc \in {"except", "raised"}

\* The second region's rule list after a lookup that ended in ClientError,
\* the first region's group being authorized.
C15_Witness ==
    /\ AtAuthorize
    /\ bastion_lookup = "ClientError"
    /\ ri = 2
    /\ aws_authorized[regions[1]] = 1
    /\ Len(ip_permissions) = Len(BasePermissions(region))

\* ------------------------------------------------------------------- C16
\* The program is about to create the group of a region that already has a
\* group of the cluster's name.
AtDuplicateCreate ==
    /\ pc = "setup_security_groups"
    /\ step = "create_security_group"
    /\ region \in aws_foreign_groups

\* C16: a group of the cluster's name that exists before the run is never
\* taken for the run's own (never recorded), its creation attempt fails the
\* run at firewall setup, a run with such a group launches no instance and
\* never gets past the firewall stage, the except block's deletes are for
\* groups this run recorded, and the group from before the run stays.
C16_ExistingGroupFailsRun ==
    /\ [](Range(security_groups) \cap aws_foreign_groups = {})
    /\ [](aws_foreign_groups # {} => aws_instances = <<>> /\ StageRank(pc) \notin 5..8)
    /\ [](\A k \in 1..Len(calls) :
              calls[k].op = "delete_security_group"
                  => calls[k].region \in Range(security_groups) \ aws_foreign_groups)
    /\ [][AtDuplicateCreate => exc' = "create_security_group" /\ pc' = "except"]_vars
    /\ [][aws_foreign_groups' = aws_foreign_groups]_vars

\* The second region has a group from before the run: the run has failed
\* there, deleted the first region's group and left the other one alone.
C16_Witness ==
    /\ Len(regions) = 2
    /\ aws_foreign_groups = {regions[2]}
    /\ exc = "create_security_group"
    /\ pc = "raised"
    /\ security_groups = <<regions[1]>>
    /\ DeleteIssued(regions[1])
    /\ aws_groups = {}

\* ------------------------------------------------------------------- C17
\* The failures of the stages before setup_security_groups.
EarlyFailures == {"find_taupage_amis", "get_subnets", "allocate_public_ips", "StopIteration"}

\* The except block's calls of one kind.
CallsOf(op) == {k \in 1..Len(calls) : calls[k].op = op}

\* C17: the except block acts on recorded resources only.  Every delete is for
\* a recorded group and every release for a recorded address of its region;
\* with nothing recorded (as after a failed image discovery) it makes no
\* call; a failure before the firewall stage leads to no delete; in internal
\* mode there is never a release.
C17_RollbackOnlyRecorded ==
    /\ \A k \in CallsOf("delete_security_group") : calls[k].region \in Range(security_groups)
    /\ \A k \in CallsOf("release_address") :
           ~internal /\ calls[k].ip \in Range(node_ips[calls[k].region])
    /\ security_groups = <<>> /\ Recorded = {} => calls = <<>>
    /\ exc = "find_taupage_amis" => calls = <<>>
    /\ exc \in EarlyFailures => CallsOf("delete_security_group") = {}
    /\ internal => CallsOf("release_address") = {}

\* An internal run that failed with addresses and a group recorded: the
\* rollback is over, it deleted the group and released nothing.
C17_Witness ==
    /\ internal
    /\ pc = "raised"
    /\ raised = exc
    /\ Recorded # {}
    /\ security_groups # <<>>
    /\ Len(calls) = Len(security_groups)

\* ------------------------------------------------------------------- C18
\* The instances booted for the address at position k of region r.
LaunchesOf(r, k) ==
    {n \in 1..Len(aws_instances) :
        aws_instances[n].region = r /\ aws_instances[n].ip = node_ips[r][k]}

\* C18: on success every allocated address has been booted exactly once, as a
\* seed when its index in the region is below seed_count and as a normal node
\* otherwise, cluster_size times the number of regions instances in all.
C18_OneLaunchPerAddress ==
    pc = "success" =>
        /\ \A r \in Range(regions) : \A k \in 1..Len(node_ips[r]) :
               /\ Cardinality(LaunchesOf(r, k)) = 1
               /\ \A n \in LaunchesOf(r, k) : aws_instances[n].is_seed <=> (k - 1 < seed_count)
        /\ Len(aws_instances) = cluster_size * Len(regions)
        /\ Len(Launches) = cluster_size * Len(regions)

\* A successful run of two regions with seeds and a normal node in each.
C18_Witness ==
    /\ pc = "success"
    /\ Len(regions) = 2
    /\ cluster_size > MaxSeeds
    /\ \E n \in 1..Len(aws_instances) : ~aws_instances[n].is_seed

\* ------------------------------------------------------------------- C19
\* launch_instance is at work on the instance it has booted.
InLaunch ==
    /\ pc \in {"launch_seed_nodes", "launch_normal_nodes"}
    /\ step \in {"create_tags", "describe_instances", "associate_address",
                 "tag_volume", "put_metric_alarm"}

\* The step that a launch takes after step st when no call fails.
StepAfter(st) ==
    CASE st = "run_instances" -> {"create_tags"}
      [] st = "create_tags" -> {"describe_instances"}
      [] st = "describe_instances" ->
            {"describe_instances", IF internal THEN "tag_volume" ELSE "associate_address"}
      [] st = "associate_address" -> {"tag_volume"}
      [] st = "tag_volume" -> {"put_metric_alarm"}
      [] st = "put_metric_alarm" -> {"launched"}
      [] OTHER -> {}

\* C19: a launch goes through boot request, instance tag, wait, address
\* association (public mode only), volume tag and alarm in this order.  The
\* wait is left only with the instance seen out of the pending state, so the
\* association and the later steps find it so; an address gets associated in
\* public mode only, by the association step, with the instance booted for
\* it; the boot request names a private address exactly in internal mode.
C19_LaunchStepOrder ==
    /\ [][(InLaunch \/ (pc \in {"launch_seed_nodes", "launch_normal_nodes"}
                            /\ step = "run_instances"))
              /\ pc' # "except"
             => pc' = pc /\ step' \in StepAfter(step)]_vars
    /\ [][InLaunch /\ step = "describe_instances" /\ step' # step /\ pc' # "except"
             => aws_instances'[instance].state # "pending"]_vars
    /\ [](InLaunch /\ step \in {"associate_address", "tag_volume", "put_metric_alarm"}
             => aws_instances[instance].state # "pending")
    /\ [](InLaunch /\ step \in {"create_tags", "describe_instances"}
             => aws_instances[instance].state = "pending"
                /\ aws_instances[instance].ip \notin aws_associated)
    /\ [](InLaunch /\ step = "associate_address" => ~internal)
    /\ [][aws_associated' # aws_associated /\ pc # "except"
             => /\ ~internal
                /\ InLaunch /\ step = "associate_address"
                /\ aws_instances[instance].state # "pending"
                /\ aws_associated' = aws_associated \cup {aws_instances[instance].ip}]_vars
    /\ [](internal => aws_associated = {})
    /\ [](\A n \in 1..Len(aws_instances) : aws_instances[n].PrivateIpAddress <=> internal)

\* A public launch after its association: the instance was polled as pending,
\* left that state, and holds its address.
C19_Witness ==
    /\ InLaunch
    /\ step = "tag_volume"
    /\ ~internal
    /\ aws_instances[instance].state = "running"
    /\ aws_instances[instance].ip \in aws_associated
    /\ Len(aws_instances) > 1

\* ------------------------------------------------------------------- C20
\* launch_instance is polling an instance that never leaves the pending state.
StuckPending == InLaunch /\ step = "describe_instances" /\ aws_instances[instance].stuck

\* cli() is over: it returned, or an exception left it.
Ended == pc \in {"success", "raised"}

\* An instance that never leaves the pending state has been booted.
AnyStuck == \E n \in 1..Len(aws_instances) : aws_instances[n].stuck

\* C20 as stated: a run whose instances all leave the pending state ends, and
\* a run polling an instance that stays pending forever stays in that wait
\* (it reaches neither success nor the except block).
C20_StuckWaitNeverLeft ==
    /\ <>Ended \/ <>[]StuckPending
    /\ [](AnyStuck => StageRank(pc) # StageRank("success"))
    /\ [][StuckPending => StuckPending']_vars

\* C20, amended: the wait has no timeout.  A run whose instances all leave
\* the pending state ends (success, or an exception out of cli()); a run that
\* has booted an instance that stays pending forever never reaches success,
\* and it leaves the wait for that instance only when one of the polling
\* calls itself fails, which takes it to the except block.
C20_WaitHasNoTimeout ==
    /\ <>Ended \/ <>[]StuckPending
    /\ [](AnyStuck => StageRank(pc) # StageRank("success"))
    /\ [](\A n \in 1..Len(aws_instances) :
              aws_instances[n].stuck => aws_instances[n].state = "pending")
    /\ [][StuckPending /\ ~StuckPending'
             => exc' = "describe_instances" /\ pc' = "except"]_vars

\* The run has polled a later instance MaxPolls times and the instance is
\* one that stays pending.
C20_Witness ==
    /\ StuckPending
    /\ polls = MaxPolls
    /\ Len(aws_instances) > 1
    /\ exc = ""

\* ------------------------------------------------------------------- C21
\* The positions of the boot request's list at the data volume's device name.
AtDataDevice ==
    {k \in 1..Len(block_devices) : block_devices[k].DeviceName = DataDeviceName}

\* C21: for every image mapping list, the list of the boot request has
\* exactly one entry at /dev/xvdf and that entry is encrypted; no entry
\* copied from the image carries an Encrypted key; every image entry that is
\* not an Ebs volume appears as a no-device marker only; the image's own
\* list is never changed.
C21_OneEncryptedDataDevice ==
    /\ [](block_devices # <<>> =>
            /\ Cardinality(AtDataDevice) = 1
            /\ \A k \in AtDataDevice :
                   block_devices[k].kind = "Ebs" /\ block_devices[k].Encrypted = "true"
            /\ Len(block_devices) = Len(block_device_mappings) + 1
            /\ \A k \in 1..Len(block_device_mappings) :
                   /\ block_devices[k].DeviceName = block_device_mappings[k].DeviceName
                   /\ block_devices[k].Encrypted = "absent"
                   /\ block_device_mappings[k].kind # "Ebs"
                          => block_devices[k].kind = "NoDevice")
    /\ [][block_device_mappings' = block_device_mappings]_vars

\* ------------------------------------------------------------------- C22
\* The address lies in the host range of subnet s of region r.
InSubnet(a, r, s) ==
    /\ s \in 1..Len(subnets[r])
    /\ a.net = s
    /\ a.host \in 1..subnets[r][s]

\* C22: in private mode the address recorded at index i of a region comes
\* from the host range of subnets[i mod len(subnets)], and every instance,
\* seed or normal, is booted with a recorded address of its region in the
\* subnet that address comes from.
C22_PrivateAddressInSubnet ==
    internal =>
        /\ \A r \in Range(regions) : \A k \in 1..Len(node_ips[r]) :
               /\ node_ips[r][k].index = k - 1
               /\ InSubnet(node_ips[r][k], r, ((k - 1) % Len(subnets[r])) + 1)
        /\ \A n \in 1..Len(aws_instances) :
               /\ aws_instances[n].PrivateIpAddress
               /\ aws_instances[n].ip \in Range(node_ips[aws_instances[n].region])
               /\ InSubnet(aws_instances[n].ip, aws_instances[n].region,
                           aws_instances[n].SubnetId)

\* A successful private run over two subnets with seeds and a normal node:
\* both subnets hold instances, and a normal node is among them.
C22_Witness ==
    /\ internal
    /\ pc = "success"
    /\ Len(subnets[regions[1]]) = 2
    /\ \E n \in 1..Len(aws_instances) :
           ~aws_instances[n].is_seed /\ aws_instances[n].SubnetId = 2
    /\ \E n \in 1..Len(aws_instances) :
           aws_instances[n].is_seed /\ aws_instances[n].SubnetId = 1
====
